---- MODULE Spec2Model ----
(***************************************************************************)
(* Three-way single-file merge policy layer of libgit2 (src/merge_file.c). *)
(* The model covers the two resolvers (best path, best mode), the input    *)
(* normalizers from a file and from an index entry, the orchestrator       *)
(* git_merge_file__from_inputs and the two public entry points             *)
(* git_merge_file and git_merge_file_from_index.  The text-merge engine    *)
(* xdl_merge, the file system and the object database are environment:     *)
(* their outcomes are chosen nondeterministically.                         *)
(***************************************************************************)
EXTENDS Integers, Sequences, FiniteSets, TLC

\* ---------------------------------------------------------------- bounds
NumPaths == 3          \* number of distinct path strings callers may use
MaxConflicts == 1      \* largest conflict count the engine reports
MaxLen == 1            \* largest size of the engine's output buffer
ContentLen == 1        \* size of the content a present side carries

\* ------------------------------------------------------------- constants
GIT_FILEMODE_BLOB == 33188              \* 0100644
GIT_FILEMODE_BLOB_EXECUTABLE == 33261   \* 0100755

\* 40960 is 0120000, the symbolic-link mode: a mode that is neither of the
\* two blob modes, carried by index entries.
EntryModes == {0, GIT_FILEMODE_BLOB, GIT_FILEMODE_BLOB_EXECUTABLE, 40960}

\* git_index__create_mode of the stat'ed mode of a file that could be read
FileModes == {GIT_FILEMODE_BLOB, GIT_FILEMODE_BLOB_EXECUTABLE}

PathNames == <<"a.txt", "b.txt", "c.txt", "d.txt", "e.txt">>
Paths == {PathNames[i] : i \in 1..NumPaths}

Sides == {"ancestor", "ours", "theirs"}
SideOrder == <<"ancestor", "ours", "theirs">>

\* git_merge_file_favor_t
GIT_MERGE_FILE_FAVOR_NORMAL == "FAVOR_NORMAL"
GIT_MERGE_FILE_FAVOR_OURS == "FAVOR_OURS"
GIT_MERGE_FILE_FAVOR_THEIRS == "FAVOR_THEIRS"
GIT_MERGE_FILE_FAVOR_UNION == "FAVOR_UNION"
Favors == {GIT_MERGE_FILE_FAVOR_NORMAL, GIT_MERGE_FILE_FAVOR_OURS,
           GIT_MERGE_FILE_FAVOR_THEIRS, GIT_MERGE_FILE_FAVOR_UNION}

\* git_merge_file_flags_t is a bit set; each bit is a field here:
\* diff3 = GIT_MERGE_FILE_STYLE_DIFF3, alnum = GIT_MERGE_FILE_SIMPLIFY_ALNUM
FlagSets == [diff3 : BOOLEAN, alnum : BOOLEAN]
GIT_MERGE_FILE_DEFAULT == [diff3 |-> FALSE, alnum |-> FALSE]

\* ---------------------------------------------------------------- memory
\* A C string pointer: the block it points into and the characters there.
\* Blocks: "null" (the NULL pointer), "caller" (a string the caller owns),
\* a side name (the path git__strdup'ed into that side's input), "result"
\* (the copy git__strdup'ed for the result).
NullPtr == [blk |-> "null", str |-> ""]
CallerStr(s) == [blk |-> "caller", str |-> s]
Strdup(p, blk) == [blk |-> blk, str |-> p.str]
strcmp0(p, q) == p.str = q.str

\* mmfile_t / mmbuffer_t: pointer and size
NullBuf == [ptr |-> "null", size |-> 0]

\* git_merge_file_input a = {0}
ZeroInput == [label |-> NullPtr, path |-> NullPtr, mode |-> 0,
              mmfile |-> NullBuf, odb_object |-> "null"]

\* git_merge_file_result zeroed
ZeroResult == [path |-> NullPtr, mode |-> 0, automergeable |-> FALSE,
               data |-> "null", len |-> 0]

\* ------------------------------------------------------------- resolvers
GIT_MERGE_FILE_SIDE_EXISTS(X) == X.mode # 0

\* Variant: the two returns of the ancestor-present branch exchanged
merge_file_best_path_swapped(ancestor, ours, theirs) ==
  IF ~GIT_MERGE_FILE_SIDE_EXISTS(ancestor)
  THEN IF strcmp0(ours.path, theirs.path) THEN ours.path ELSE NullPtr
  ELSE IF strcmp0(ancestor.path, ours.path) THEN ours.path
       ELSE IF strcmp0(ancestor.path, theirs.path) THEN theirs.path
       ELSE NullPtr

\* Variant: the ancestor's path returned whenever one side kept it
merge_file_best_path_keep(ancestor, ours, theirs) ==
  IF ~GIT_MERGE_FILE_SIDE_EXISTS(ancestor)
  THEN IF strcmp0(ours.path, theirs.path) THEN ours.path ELSE NullPtr
  ELSE IF strcmp0(ancestor.path, ours.path) THEN ancestor.path
       ELSE IF strcmp0(ancestor.path, theirs.path) THEN ancestor.path
       ELSE NullPtr

merge_file_best_path(ancestor, ours, theirs) ==
  IF ~GIT_MERGE_FILE_SIDE_EXISTS(ancestor)
  THEN IF strcmp0(ours.path, theirs.path) THEN ours.path ELSE NullPtr
  ELSE IF strcmp0(ancestor.path, ours.path) THEN theirs.path
       ELSE IF strcmp0(ancestor.path, theirs.path) THEN ours.path
       ELSE NullPtr

\* Variant: the ancestor's path compared before its mode is looked at
merge_file_best_path_reads_all(ancestor, ours, theirs) ==
  {"ancestor", "ours", "theirs"}

\* The sides whose path field merge_file_best_path reads: ours and theirs
\* alone when the ancestor is absent; otherwise the ancestor's and ours' in
\* the first strcmp, and theirs' either as the returned pointer or in the
\* second strcmp.
merge_file_best_path_reads(ancestor, ours, theirs) ==
  IF ~GIT_MERGE_FILE_SIDE_EXISTS(ancestor)
  THEN {"ours", "theirs"}
  ELSE {"ancestor", "ours", "theirs"}

\* Variant: without the ancestor-absent branch
merge_file_best_mode_nobranch(ancestor, ours, theirs) ==
  IF ancestor.mode = ours.mode THEN theirs.mode
  ELSE IF ancestor.mode = theirs.mode THEN ours.mode
  ELSE 0

merge_file_best_mode(ancestor, ours, theirs) ==
  IF ~GIT_MERGE_FILE_SIDE_EXISTS(ancestor)
  THEN IF ours.mode = GIT_FILEMODE_BLOB_EXECUTABLE \/
          theirs.mode = GIT_FILEMODE_BLOB_EXECUTABLE
       THEN GIT_FILEMODE_BLOB_EXECUTABLE
       ELSE GIT_FILEMODE_BLOB
  ELSE IF ancestor.mode = ours.mode THEN theirs.mode
       ELSE IF ancestor.mode = theirs.mode THEN ours.mode
       ELSE 0

\* ------------------------------------------------------------ normalizers
\* git_merge_file__input_from_file.  outcome is what the environment does:
\* "stat" (p_stat fails), "read" (git_futils_readbuffer fails), "alloc"
\* (git__strdup fails) or "ok"; mode is git_index__create_mode(st.st_mode)
\* and size the number of bytes read.
git_merge_file__input_from_file(input, path, side, outcome, mode, size) ==
  IF outcome # "ok"
  THEN [error |-> -1, input |-> input]
  ELSE LET p == Strdup(CallerStr(path), side)
       IN [error |-> 0,
           input |-> [input EXCEPT
                        !.path = p,
                        !.mode = mode,
                        !.mmfile = [ptr |-> side, size |-> size],
                        !.label = IF input.label = NullPtr THEN p
                                  ELSE input.label]]

\* git_merge_file__input_from_index_entry.  outcome: "odb" (the object
\* database or the object cannot be read), "alloc" (git__strdup fails after
\* the object was read) or "ok"; size is git_odb_object_size.
git_merge_file__input_from_index_entry(input, entry, side, outcome, size) ==
  IF entry.mode = 0
  THEN [error |-> 0, input |-> input]
  ELSE IF outcome = "odb"
  THEN [error |-> -1, input |-> input]
  ELSE IF outcome = "alloc"
  THEN [error |-> -1, input |-> [input EXCEPT !.odb_object = side]]
  ELSE LET p == Strdup(CallerStr(entry.path), side)
       IN [error |-> 0,
           input |-> [input EXCEPT
                        !.odb_object = side,
                        !.path = p,
                        !.mode = entry.mode,
                        !.mmfile = [ptr |-> side, size |-> size],
                        !.label = IF input.label = NullPtr THEN p
                                  ELSE input.label]]

\* ----------------------------------------------------------- orchestrator
\* Variant: the early return taken only when both sides are missing
SideMissing_both(ours, theirs) ==
  ~GIT_MERGE_FILE_SIDE_EXISTS(ours) /\ ~GIT_MERGE_FILE_SIDE_EXISTS(theirs)

\* The early return of git_merge_file__from_inputs
SideMissing(ours, theirs) ==
  ~GIT_MERGE_FILE_SIDE_EXISTS(ours) \/ ~GIT_MERGE_FILE_SIDE_EXISTS(theirs)

\* The xmparam_t built for the engine
BuildXmparam(ancestor, ours, theirs, favor, flags) ==
  [ancestor |-> ancestor.label,
   file1 |-> ours.label,
   file2 |-> theirs.label,
   favor |-> IF favor = GIT_MERGE_FILE_FAVOR_OURS THEN "XDL_MERGE_FAVOR_OURS"
             ELSE IF favor = GIT_MERGE_FILE_FAVOR_THEIRS
                  THEN "XDL_MERGE_FAVOR_THEIRS"
             ELSE IF favor = GIT_MERGE_FILE_FAVOR_UNION
                  THEN "XDL_MERGE_FAVOR_UNION"
             ELSE "none",
   level |-> IF flags.alnum THEN "XDL_MERGE_ZEALOUS_ALNUM"
             ELSE "XDL_MERGE_ZEALOUS",
   style |-> IF flags.diff3 THEN "XDL_MERGE_DIFF3" ELSE "none"]

\* The sides whose mmfile is handed to xdl_merge
XdlMergeFiles(ancestor, ours, theirs) == {"ancestor", "ours", "theirs"}

\* Variant: any status that is not an error counted as a clean merge
Automergeable_nonneg(xdl_result) == xdl_result >= 0

\* out->automergeable from the engine's status
Automergeable(xdl_result) == xdl_result = 0

\* git_merge_file__from_inputs.  xdl_result and mmbuffer are what xdl_merge
\* returns if it is called (the buffer is meaningful only for a status that
\* is not negative).  The value is the returned error, the result
\* structure as left in *out, and a log of what the call touched: the
\* engine invocations (parameters and the sides whose mmfile was passed)
\* and the sides whose path the resolver read.
git_merge_file__from_inputs(ancestor, ours, theirs, favor, flags, xdl_result, mmbuffer) ==
  IF SideMissing(ours, theirs)
  THEN [error |-> 0, out |-> ZeroResult, calls |-> << >>, path_reads |-> {}]
  ELSE LET xmparam == BuildXmparam(ancestor, ours, theirs, favor, flags)
           out1 == [ZeroResult EXCEPT
                      !.path = merge_file_best_path(ancestor, ours, theirs),
                      !.mode = merge_file_best_mode(ancestor, ours, theirs)]
           call == [xmparam |-> xmparam,
                    files |-> XdlMergeFiles(ancestor, ours, theirs),
                    orig |-> ancestor.mmfile,
                    mf1 |-> ours.mmfile,
                    mf2 |-> theirs.mmfile,
                    xdl_result |-> xdl_result,
                    mmbuffer |-> mmbuffer]
           reads == merge_file_best_path_reads(ancestor, ours, theirs)
       IN IF xdl_result < 0
          THEN [error |-> -1, out |-> out1, calls |-> <<call>>,
                path_reads |-> reads]
          ELSE [error |-> 0,
                out |-> [out1 EXCEPT
                           !.automergeable = Automergeable(xdl_result),
                           !.data = mmbuffer.ptr,
                           !.len = mmbuffer.size],
                calls |-> <<call>>,
                path_reads |-> reads]

\* git_merge_file__input_free: releases the input's path and its object
\* database handle.  The value is the set of memory blocks it frees.
git_merge_file__input_free(input) ==
  (IF input.path = NullPtr THEN {} ELSE {input.path.blk})

\* Variant: the last input not released
InputsFreedAtDone_leak == {"ancestor", "ours"}

\* The inputs handed to git_merge_file__input_free at the done: label of
\* the two public entry points
InputsFreedAtDone == {"ancestor", "ours", "theirs"}

\* The position after normalizing side number i without error: the next
\* side, or the step that follows the third normalization.
AfterNormalize(i, last) == IF i < 3 THEN "norm" ELSE last

\* result->path && (result->path = git__strdup(result->path)) == NULL
DupResultPath(res, ok) ==
  IF res.path = NullPtr
  THEN [error |-> 0, result |-> res]
  ELSE IF ok
  THEN [error |-> 0, result |-> [res EXCEPT !.path = Strdup(res.path, "result")]]
  ELSE [error |-> -1, result |-> [res EXCEPT !.path = NullPtr]]

\* ------------------------------------------------------------------ state
VARIABLES
  pc,          \* position of the call: idle, norm, opts, merge, dup, done, returned
  entry,       \* entry point called: none, file, index, inputs
  args,        \* per side, what the caller passed (a path, or an index entry)
  opts,        \* the git_merge_file_options passed, with given = FALSE for NULL
  cur,         \* number of the side the next normalization works on
  inputs,      \* ancestor_input, our_input, their_input
  favor,       \* favor passed to git_merge_file__from_inputs
  flags,       \* flags local of the entry point
  result,      \* the caller's git_merge_file_result
  error,       \* error local of the entry point, the value returned
  xdl_calls,   \* invocations of xdl_merge during the call
  path_reads,  \* sides whose path the resolver read
  norm_calls,  \* per side, number of normalizer calls
  free_calls,  \* per side, number of git_merge_file__input_free calls
  freed        \* memory blocks released so far

vars == <<pc, entry, args, opts, cur, inputs, favor, flags, result, error,
          xdl_calls, path_reads, norm_calls, free_calls, freed>>

\* What xdl_merge can leave in the mmbuffer_t: an allocated buffer of some
\* size on success, nothing on failure
UnsetBuffer == [ptr |-> "unset", size |-> 0]
EngineBuffers == {UnsetBuffer} \cup [ptr : {"xdl"}, size : 0..MaxLen]

Labels == {NullPtr, CallerStr("label")}
\* flags a caller of the public entry points sets in its options
OptFlags == {GIT_MERGE_FILE_DEFAULT, [diff3 |-> TRUE, alnum |-> TRUE]}
NoOpts == [given |-> FALSE, label |-> [s \in Sides |-> NullPtr],
           flags |-> GIT_MERGE_FILE_DEFAULT]
OptsSet == {NoOpts} \cup
           [given : {TRUE}, label : [Sides -> Labels], flags : OptFlags]

\* Inputs a caller of git_merge_file__from_inputs holds after normalizing:
\* a zeroed input for a side that has no file, otherwise a path, a mode and
\* a content view of its own with the label defaulted to the path.
PresentInput(side, path, mode, size) ==
  [label |-> Strdup(CallerStr(path), side),
   path |-> Strdup(CallerStr(path), side),
   mode |-> mode,
   mmfile |-> [ptr |-> side, size |-> size],
   odb_object |-> side]
NormalizedInputs(side) ==
  {ZeroInput} \cup
  {PresentInput(side, p, m, ContentLen) : p \in Paths, m \in EntryModes \ {0}}

\* The git_index_entry values a caller passes: a path and a mode for a side
\* that has the file, and mode 0 for a side that does not (its path is not
\* looked at by the normalizer, so one value stands for it).
IndexEntries ==
  [path : Paths, mode : EntryModes \ {0}] \cup
  {[path |-> PathNames[1], mode |-> 0]}

Init ==
  /\ pc = "idle"
  /\ entry = "none"
  /\ args = [s \in Sides |-> [path |-> "", mode |-> 0]]
  /\ opts = NoOpts
  /\ cur = 1
  /\ inputs = [s \in Sides |-> ZeroInput]
  /\ favor = GIT_MERGE_FILE_FAVOR_NORMAL
  /\ flags = GIT_MERGE_FILE_DEFAULT
  /\ result = ZeroResult
  /\ error = 0
  /\ xdl_calls = << >>
  /\ path_reads = {}
  /\ norm_calls = [s \in Sides |-> 0]
  /\ free_calls = [s \in Sides |-> 0]
  /\ freed = {}

\* ---------------------------------------------------------------- actions
\* git_merge_file: locals and the if (opts) block
CallMergeFile ==
  /\ pc = "idle"
  /\ \E paths \in [Sides -> Paths], o \in OptsSet :
       /\ args' = [s \in Sides |-> [path |-> paths[s], mode |-> 0]]
       /\ opts' = o
       /\ inputs' = [s \in Sides |->
                       [ZeroInput EXCEPT !.label =
                          IF o.given THEN o.label[s] ELSE NullPtr]]
       /\ flags' = IF o.given THEN o.flags ELSE GIT_MERGE_FILE_DEFAULT
  /\ entry' = "file"
  /\ pc' = "norm"
  /\ UNCHANGED <<cur, favor, result, error, xdl_calls, path_reads,
                 norm_calls, free_calls, freed>>

\* git_merge_file: one operand of the || chain of normalizations
NormalizeFromFile ==
  /\ pc = "norm"
  /\ entry = "file"
  /\ LET side == SideOrder[cur] IN
     \E outcome \in {"stat", "read", "alloc", "ok"}, mode \in FileModes :
       LET r == git_merge_file__input_from_file(inputs[side], args[side].path,
                                                side, outcome, mode, ContentLen)
       IN /\ inputs' = [inputs EXCEPT ![side] = r.input]
          /\ error' = r.error
          /\ norm_calls' = [norm_calls EXCEPT ![side] = @ + 1]
          /\ pc' = IF r.error < 0 THEN "done" ELSE AfterNormalize(cur, "merge")
          /\ cur' = IF r.error < 0 \/ cur = 3 THEN cur ELSE cur + 1
  /\ UNCHANGED <<entry, args, opts, favor, flags, result, xdl_calls,
                 path_reads, free_calls, freed>>

\* git_merge_file_from_index: locals
CallMergeFileFromIndex ==
  /\ pc = "idle"
  /\ \E entries \in [Sides -> IndexEntries], o \in OptsSet :
       /\ args' = entries
       /\ opts' = o
  /\ inputs' = [s \in Sides |-> ZeroInput]
  /\ flags' = GIT_MERGE_FILE_DEFAULT
  /\ entry' = "index"
  /\ pc' = "norm"
  /\ UNCHANGED <<cur, favor, result, error, xdl_calls, path_reads,
                 norm_calls, free_calls, freed>>

\* git_merge_file_from_index: one operand of the || chain
NormalizeFromIndexEntry ==
  /\ pc = "norm"
  /\ entry = "index"
  /\ LET side == SideOrder[cur] IN
     \E outcome \in {"odb", "alloc", "ok"} :
       LET r == git_merge_file__input_from_index_entry(
                  inputs[side], args[side], side, outcome, ContentLen)
       IN /\ inputs' = [inputs EXCEPT ![side] = r.input]
          /\ error' = r.error
          /\ norm_calls' = [norm_calls EXCEPT ![side] = @ + 1]
          /\ pc' = IF r.error < 0 THEN "done" ELSE AfterNormalize(cur, "opts")
          /\ cur' = IF r.error < 0 \/ cur = 3 THEN cur ELSE cur + 1
  /\ UNCHANGED <<entry, args, opts, favor, flags, result, xdl_calls,
                 path_reads, free_calls, freed>>

\* git_merge_file_from_index: the if (opts) block after the normalizations
ApplyIndexOpts ==
  /\ pc = "opts"
  /\ inputs' = IF opts.given
               THEN [s \in Sides |-> [inputs[s] EXCEPT !.label = opts.label[s]]]
               ELSE inputs
  /\ flags' = IF opts.given THEN opts.flags ELSE flags
  /\ pc' = "merge"
  /\ UNCHANGED <<entry, args, opts, cur, favor, result, error, xdl_calls,
                 path_reads, norm_calls, free_calls, freed>>

\* A direct call of git_merge_file__from_inputs by a caller that holds
\* three normalized inputs
CallFromInputs ==
  /\ pc = "idle"
  /\ \E a \in NormalizedInputs("ancestor"), o \in NormalizedInputs("ours"),
        t \in NormalizedInputs("theirs"), fv \in Favors, fl \in FlagSets :
       /\ inputs' = [s \in Sides |-> IF s = "ancestor" THEN a
                                      ELSE IF s = "ours" THEN o ELSE t]
       /\ favor' = fv
       /\ flags' = fl
  /\ entry' = "inputs"
  /\ pc' = "merge"
  /\ UNCHANGED <<args, opts, cur, result, error, xdl_calls, path_reads,
                 norm_calls, free_calls, freed>>

\* The call of git_merge_file__from_inputs, from either public entry point
\* (followed by its if (... < 0) goto done) or directly
MergeFromInputs ==
  /\ pc = "merge"
  /\ \E xdl_result \in -1..MaxConflicts, mmbuffer \in EngineBuffers :
       /\ xdl_result < 0 => mmbuffer = UnsetBuffer
       /\ xdl_result >= 0 => mmbuffer # UnsetBuffer
       /\
          LET r == git_merge_file__from_inputs(
                     inputs["ancestor"], inputs["ours"], inputs["theirs"],
                     favor, flags, xdl_result, mmbuffer)
          IN /\ result' = r.out
             /\ error' = r.error
             /\ xdl_calls' = xdl_calls \o r.calls
             /\ path_reads' = path_reads \cup r.path_reads
             /\ pc' = IF entry = "inputs" THEN "returned"
                      ELSE IF r.error < 0 THEN "done" ELSE "dup"
  /\ UNCHANGED <<entry, args, opts, cur, inputs, favor, flags, norm_calls,
                 free_calls, freed>>

\* Both public entry points: the copy of the resolved path
DupPath ==
  /\ pc = "dup"
  /\ \E ok \in BOOLEAN :
       LET r == DupResultPath(result, ok)
       IN /\ result' = r.result
          /\ error' = r.error
  /\ pc' = "done"
  /\ UNCHANGED <<entry, args, opts, cur, inputs, favor, flags, xdl_calls,
                 path_reads, norm_calls, free_calls, freed>>

\* Both public entry points: the done: label and the return
Cleanup ==
  /\ pc = "done"
  /\ free_calls' = [s \in Sides |->
                      IF s \in InputsFreedAtDone THEN free_calls[s] + 1
                      ELSE free_calls[s]]
  /\ freed' = freed \cup UNION {git_merge_file__input_free(inputs[s]) :
                                  s \in InputsFreedAtDone}
  /\ pc' = "returned"
  /\ UNCHANGED <<entry, args, opts, cur, inputs, favor, flags, result, error,
                 xdl_calls, path_reads, norm_calls>>

Next ==
  \/ CallMergeFile
  \/ NormalizeFromFile
  \/ CallMergeFileFromIndex
  \/ NormalizeFromIndexEntry
  \/ ApplyIndexOpts
  \/ CallFromInputs
  \/ MergeFromInputs
  \/ DupPath
  \/ Cleanup

Spec == Init /\ [][Next]_vars

\* ----------------------------------------------------------------- claims
Present(s) == inputs[s].mode # 0
Public == entry \in {"file", "index"}
\* A step that runs git_merge_file__from_inputs
FromInputsStep == pc = "merge" /\ pc' # "merge"

\* C1: a call of git_merge_file__from_inputs with ours or theirs absent
\* returns success, leaves every field of the result zero and does not
\* invoke the engine.
C1_ShortCircuit ==
  [][(FromInputsStep /\ (inputs["ours"].mode = 0 \/ inputs["theirs"].mode = 0))
       => (error' = 0 /\ result' = ZeroResult /\ xdl_calls' = xdl_calls)]_vars
C1_Witness ==
  /\ entry = "index" /\ pc = "dup"
  /\ inputs["ours"].mode = 0 /\ inputs["theirs"].mode # 0
  /\ inputs["ancestor"].mode # 0
  /\ result = ZeroResult /\ xdl_calls = << >>

\* C2: with ours and theirs present the resolved path is, for an absent
\* ancestor, ours.path when ours.path equals theirs.path and null otherwise;
\* for a present ancestor, theirs.path when ancestor.path equals ours.path,
\* else ours.path when ancestor.path equals theirs.path, else null.
C2_RefPath ==
  LET a == inputs["ancestor"]  o == inputs["ours"]  t == inputs["theirs"]
  IN CASE a.mode = 0 /\ o.path.str = t.path.str -> o.path
       [] a.mode = 0 /\ o.path.str # t.path.str -> NullPtr
       [] a.mode # 0 /\ a.path.str = o.path.str -> t.path
       [] a.mode # 0 /\ a.path.str # o.path.str /\ a.path.str = t.path.str
            -> o.path
       [] OTHER -> NullPtr
C2_BestPath ==
  [][(FromInputsStep /\ Present("ours") /\ Present("theirs"))
       => result'.path = C2_RefPath]_vars
C2_Witness ==
  /\ pc = "dup" /\ entry = "index"
  /\ Present("ancestor") /\ Present("ours") /\ Present("theirs")
  /\ inputs["ancestor"].path.str = inputs["ours"].path.str
  /\ inputs["theirs"].path.str # inputs["ancestor"].path.str
  /\ result.path = inputs["theirs"].path

\* C3: with ours and theirs present the resolved mode is, for an absent
\* ancestor, the executable blob mode when ours or theirs is executable and
\* the plain blob mode otherwise; for a present ancestor, theirs.mode when
\* ancestor.mode equals ours.mode, else ours.mode when ancestor.mode equals
\* theirs.mode, else 0.
C3_RefMode ==
  LET a == inputs["ancestor"].mode  o == inputs["ours"].mode
      t == inputs["theirs"].mode
  IN CASE a = 0 /\ (o = 33261 \/ t = 33261) -> 33261
       [] a = 0 /\ o # 33261 /\ t # 33261 -> 33188
       [] a # 0 /\ a = o -> t
       [] a # 0 /\ a # o /\ a = t -> o
       [] OTHER -> 0
C3_BestMode ==
  [][(FromInputsStep /\ Present("ours") /\ Present("theirs"))
       => (/\ result'.mode = C3_RefMode
           /\ (~Present("ancestor") => result'.mode \in {33188, 33261}))]_vars
C3_Witness ==
  /\ pc = "dup" /\ entry = "index"
  /\ ~Present("ancestor")
  /\ inputs["ours"].mode = 40960 /\ inputs["theirs"].mode = 33188
  /\ result.mode = 33188

\* C4: when a call returns an error, no field of the caller's result has
\* been populated: it is still all zero.
C4_NoPartialResult ==
  (pc = "returned" /\ error < 0) => result = ZeroResult

\* C5: on every exit path of the two public entry points each of the three
\* inputs is released exactly once before the call returns, and after the
\* first failing normalization no further normalization and no engine
\* invocation is attempted.
C5_ReleasedOnce ==
  /\ [](Public =>
         /\ \A s \in Sides : free_calls[s] = IF pc = "returned" THEN 1 ELSE 0
         /\ \A s \in Sides : norm_calls[s] <= 1)
  /\ [][(Public /\ pc = "norm" /\ error' < 0) => pc' = "done"]_vars
  /\ [][(Public /\ pc = "done")
          => (pc' = "returned" /\ norm_calls' = norm_calls
              /\ xdl_calls' = xdl_calls)]_vars
C5_Witness ==
  /\ pc = "returned" /\ entry = "index" /\ error < 0
  /\ norm_calls["ancestor"] = 1 /\ norm_calls["ours"] = 1
  /\ norm_calls["theirs"] = 0
  /\ inputs["ancestor"].path # NullPtr
  /\ "ancestor" \in freed
  /\ \A s \in Sides : free_calls[s] = 1
  /\ xdl_calls = << >>

\* C6: with ours and theirs present and an engine status c that is not
\* negative, the call succeeds, automergeable is true exactly when c = 0,
\* data and len are the engine's buffer and size, and the engine was
\* invoked exactly once.
C6_EngineResult ==
  [][(FromInputsStep /\ Present("ours") /\ Present("theirs"))
       => /\ Len(xdl_calls') = Len(xdl_calls) + 1
          /\ LET call == xdl_calls'[Len(xdl_calls')]
             IN call.xdl_result >= 0 =>
                  /\ error' = 0
                  /\ result'.automergeable = (call.xdl_result = 0)
                  /\ result'.data = call.mmbuffer.ptr
                  /\ result'.len = call.mmbuffer.size]_vars
C6_Witness ==
  /\ pc = "dup" /\ Len(xdl_calls) = 1
  /\ xdl_calls[1].xdl_result = MaxConflicts
  /\ xdl_calls[1].mmbuffer.size = MaxLen
  /\ result.automergeable = FALSE
  /\ result.data = "xdl" /\ result.len = MaxLen

\* C7: for both public entry points, whenever the engine is invoked the
\* label passed for each present side is the caller's label when one was
\* given and that side's path otherwise.
C7_LabelOf(call, s) ==
  IF s = "ancestor" THEN call.xmparam.ancestor
  ELSE IF s = "ours" THEN call.xmparam.file1 ELSE call.xmparam.file2
C7_LabelDefaultsToPath ==
  Public =>
    \A i \in 1..Len(xdl_calls) : \A s \in Sides :
      Present(s) =>
        C7_LabelOf(xdl_calls[i], s) =
          IF opts.given /\ opts.label[s] # NullPtr THEN opts.label[s]
          ELSE inputs[s].path

\* C8 as stated: with the ancestor present and exactly one of ours/theirs
\* at a path different from the ancestor's, the resolved path is the path of
\* the side whose path is unchanged.
C8_OneRenamed(changed, kept) ==
  /\ Present("ancestor") /\ Present("ours") /\ Present("theirs")
  /\ inputs[changed].path.str # inputs["ancestor"].path.str
  /\ inputs[kept].path.str = inputs["ancestor"].path.str
C8_UnchangedSidePath ==
  [][FromInputsStep =>
       /\ C8_OneRenamed("ours", "theirs")
            => result'.path.str = inputs["theirs"].path.str
       /\ C8_OneRenamed("theirs", "ours")
            => result'.path.str = inputs["ours"].path.str]_vars
\* C8 amended: in that case the resolved path is the path of the side whose
\* path differs from the ancestor's (the renamed side).
C8_RenamedSidePath ==
  [][FromInputsStep =>
       /\ C8_OneRenamed("ours", "theirs") => result'.path = inputs["ours"].path
       /\ C8_OneRenamed("theirs", "ours")
            => result'.path = inputs["theirs"].path]_vars
C8_Witness ==
  /\ entry = "inputs" /\ pc = "returned"
  /\ C8_OneRenamed("ours", "theirs")
  /\ result.path = inputs["ours"].path
  /\ result.path.str # inputs["ancestor"].path.str

\* C9 as stated: the path and the content of an input whose mode is 0 are
\* never read by the resolver and never passed to the engine, for an absent
\* ancestor as well as for an absent ours or theirs.
C9_AbsentUntouched ==
  [][FromInputsStep =>
       \A s \in Sides : ~Present(s) =>
         /\ s \notin path_reads'
         /\ \A i \in 1..Len(xdl_calls') : s \notin xdl_calls'[i].files]_vars
\* C9 amended: the path of an input whose mode is 0 is never read by the
\* resolver, and the content of an absent ours or theirs is never passed to
\* the engine; the content view of an absent ancestor is passed to it.
C9_AbsentPathUnread ==
  [][FromInputsStep =>
       \A s \in Sides : ~Present(s) =>
         /\ s \notin path_reads'
         /\ s # "ancestor" =>
              \A i \in 1..Len(xdl_calls') : s \notin xdl_calls'[i].files
         /\ (s = "ancestor" /\ Present("ours") /\ Present("theirs")) =>
              /\ Len(xdl_calls') = 1
              /\ "ancestor" \in xdl_calls'[1].files
              /\ xdl_calls'[1].orig = inputs["ancestor"].mmfile]_vars
C9_Witness ==
  /\ pc = "dup" /\ entry = "index"
  /\ ~Present("ancestor") /\ Present("ours") /\ Present("theirs")
  /\ Len(xdl_calls) = 1
  /\ path_reads = {"ours", "theirs"}
  /\ xdl_calls[1].orig = NullBuf

\* C10: at every return of the two public entry points result.path is null
\* or a copy the result owns; it never points into the path of an input the
\* call has released.
C10_NoDanglingPath ==
  (Public /\ pc = "returned") =>
    /\ result.path = NullPtr \/ result.path.blk = "result"
    /\ result.path.blk \notin freed
====
